---- MODULE Spec2Model ----
(***************************************************************************)
(* Pokeball Plus GUI (src/PokeballPlusApp/main.py).                        *)
(*                                                                         *)
(* PokeballApp.connect_to_device is a coroutine started by a click on the  *)
(* start button; every `await` of it is a position of the session (pc).    *)
(* PokeballApp.handle_input is the notification callback: a pure decoding  *)
(* of the packet followed by one log line.                                 *)
(*                                                                         *)
(* The BLE library is the environment.  What it can answer follows the     *)
(* capability interface: a scan finds a device or not, connect / read /    *)
(* subscribe can fail, unsubscribe and disconnect complete.  The device    *)
(* can drop the link at any time.  A stop request (task cancellation) is   *)
(* delivered at most once per session, at any suspension point.            *)
(***************************************************************************)
EXTENDS Integers, Sequences, FiniteSets, TLC

\* ------------------------------------------------------------- bounds
MaxSessions == 2      \* presses of the start button in one run
MaxNotify == 2        \* notifications delivered in one run

\* ------------------------------------------------- program constants
BATTERY_LEVEL == 33
MANUFACTURER_NAME == 49
SOFTWARE_REVISION == 51
INPUT == 65

JOY_X_MIN == 7980
JOY_X_MAX == 49620
JOY_Y_MIN == 13350
JOY_Y_MAX == 50280

GYRO_DIV == 5600
GYROW_DIV == 32767
ACCEL_DIV == 127

\* ------------------------------------------------------------ decoder
\* Python helpers used by handle_input, computed as Python computes them.

Min2(a, b) == IF a < b THEN a ELSE b
Max2(a, b) == IF a > b THEN a ELSE b

\* Fault variant of SliceIndex: a negative bound counts from one byte
\* before the end (C20 rejects it).
SliceIndexShifted(k, n) == IF k < 0 THEN Max2(k + n - 1, 0) ELSE Min2(k, n)

\* A slice bound as Python normalises it: negative counts from the end,
\* everything is clamped into 0..len.
SliceIndex(k, n) == IF k < 0 THEN Max2(k + n, 0) ELSE Min2(k, n)

\* data[i:j] (0-based, j exclusive); never raises, may be shorter than j-i.
PySlice(d, i, j) ==
    LET lo == SliceIndex(i, Len(d))
        hi == SliceIndex(j, Len(d))
    IN  IF lo >= hi THEN << >> ELSE SubSeq(d, lo + 1, hi)

\* data[i:] (0-based)
PySliceFrom(d, i) == PySlice(d, i, Len(d))

RECURSIVE Pow256(_)
Pow256(n) == IF n = 0 THEN 1 ELSE 256 * Pow256(n - 1)

\* int.from_bytes(b, "big"); the empty buffer gives 0.
RECURSIVE FromBytesBig(_)
FromBytesBig(b) ==
    IF Len(b) = 0 THEN 0
    ELSE 256 * FromBytesBig(SubSeq(b, 1, Len(b) - 1)) + b[Len(b)]

\* Fault variant of toInt: the bytes read as unsigned (C17 rejects it).
toIntUnsigned(b) == FromBytesBig(b)

\* toInt(b) = int.from_bytes(b, "big", signed=True): two's complement over
\* the width of the buffer actually passed.
toInt(b) ==
    LET u == FromBytesBig(b)
    IN  IF Len(b) > 0 /\ 2 * u >= Pow256(Len(b)) THEN u - Pow256(Len(b)) ELSE u

\* bytes.hex(): two hex digits (as values 0..15) per byte.
RECURSIVE Hex(_)
Hex(b) ==
    IF Len(b) = 0 THEN << >>
    ELSE << b[1] \div 16, b[1] % 16 >> \o Hex(Tail(b))

\* int(s, 16) for a string of hex digits
RECURSIVE IntHex(_)
IntHex(h) ==
    IF Len(h) = 0 THEN 0
    ELSE 16 * IntHex(SubSeq(h, 1, Len(h) - 1)) + h[Len(h)]

\* The only statement of the try block that can raise: joyX_raw[3],
\* joyX_raw[0], ... index a hex string of fewer than 4 digits.
DecodeRaises(data) == Len(Hex(PySlice(data, 2, 4))) < 4

\* Fault variant of JoyXPermuted: the two bytes swapped instead of the
\* digits permuted (C13 rejects it).
JoyXByteSwapped(data) ==
    LET h == Hex(PySlice(data, 2, 4))
    IN  << h[3], h[4], h[1], h[2] >>

\* joyX_raw[3] + joyX_raw[0] + joyX_raw[2] + joyX_raw[1]  (0-based indices)
JoyXPermuted(data) ==
    LET h == Hex(PySlice(data, 2, 4))
    IN  << h[4], h[1], h[3], h[2] >>

\* top_pressed = buttons & 1 != 0 (line 87).  In Python `&` binds tighter
\* than `!=`: this is (buttons & 1) != 0, a bool.
TopPressed(buttons) == (buttons % 2) # 0

\* Fault variant of JoyPressed: the mask of line 87 repeated (C16 rejects it).
JoyPressedWrongMask(buttons) == (buttons % 2) # 0

\* joy_pressed = buttons & 2 != 0 (line 88): (buttons & 2) != 0
JoyPressed(buttons) == ((buttons \div 2) % 2) # 0

\* Fault variant of JoyXNum: JOY_X_MIN not subtracted (C14 rejects it).
JoyXNumWithoutOffset(raw) == 2 * raw - (JOY_X_MAX - JOY_X_MIN)

\* Lines 92-94: joyX = JoyXNum / (JOY_X_MAX - JOY_X_MIN)
JoyXNum(raw) == 2 * (raw - JOY_X_MIN) - (JOY_X_MAX - JOY_X_MIN)

\* Fault variant of JoyYNum: the axis clamped to [-1, 1] (C15 rejects it).
JoyYNumClamped(raw) ==
    Max2(JOY_Y_MIN - JOY_Y_MAX,
         Min2(JOY_Y_MAX - JOY_Y_MIN, (JOY_Y_MAX - JOY_Y_MIN) - 2 * (raw - JOY_Y_MIN)))

\* Lines 97-99: joyY = JoyYNum / (JOY_Y_MAX - JOY_Y_MIN)
JoyYNum(raw) == (JOY_Y_MAX - JOY_Y_MIN) - 2 * (raw - JOY_Y_MIN)

\* The locals of handle_input after line 108.  A float is kept exactly, as
\* its numerator over the fixed denominator named beside it.
Decode(data) ==
    LET buttons == FromBytesBig(PySlice(data, 1, 2))
        joyXraw == IntHex(JoyXPermuted(data))
        joyYraw == FromBytesBig(PySlice(data, 4, 6))
    IN  [ time        |-> FromBytesBig(PySlice(data, 0, 1)),
          top_pressed |-> TopPressed(buttons),
          joy_pressed |-> JoyPressed(buttons),
          joyXraw     |-> joyXraw,
          \* joyX = joyXnum / (JOY_X_MAX - JOY_X_MIN)
          joyXnum     |-> JoyXNum(joyXraw),
          joyYraw     |-> joyYraw,
          \* joyY = joyYnum / (JOY_Y_MAX - JOY_Y_MIN)
          joyYnum     |-> JoyYNum(joyYraw),
          \* gyroX, gyroY, gyroZ = raw / GYRO_DIV; gyroW = raw / GYROW_DIV
          gyroX       |-> toInt(PySlice(data, 6, 8)),
          gyroY       |-> toInt(PySlice(data, 8, 10)),
          gyroZ       |-> toInt(PySlice(data, 10, 12)),
          gyroW       |-> toInt(PySlice(data, 12, 14)),
          \* accel = raw / ACCEL_DIV
          accelX      |-> toInt(PySliceFrom(data, -1)),
          accelY      |-> toInt(PySlice(data, -2, -1)),
          accelZ      |-> toInt(PySlice(data, -3, -2)) ]

\* The fields the formatted line prints (gyroW is computed but not printed).
SampleLine(v) ==
    [ time |-> v.time, btn1 |-> v.top_pressed, btn2 |-> v.joy_pressed,
      joyX |-> v.joyXnum, joyY |-> v.joyYnum,
      gyroX |-> v.gyroX, gyroY |-> v.gyroY, gyroZ |-> v.gyroZ,
      accX |-> v.accelX, accY |-> v.accelY, accZ |-> v.accelZ ]

\* A log line: who appended it (the session whose coroutine or whose
\* notification it was), which message, and for a decoded sample its values.
Line(s, k) == [ sid |-> s, kind |-> k, val |-> << >> ]

\* handle_input(sender, data): the one line it appends.
HandleInput(s, data) ==
    IF DecodeRaises(data)
    THEN Line(s, "parse_error")
    ELSE [ sid |-> s, kind |-> "sample", val |-> SampleLine(Decode(data)) ]


\* ------------------------------------------------------------ inputs
\* Notification payloads a device (or a faulty link) delivers; lengths on
\* both sides of the 4-byte and of the 14-byte boundary.
PacketA == << 7, 3, 18, 52, 124, 71, 0, 1, 255, 255, 128, 0, 127, 255 >>
PacketB == << 0, 0, 0, 135, 124, 71, 0, 0, 0, 0, 0, 0, 0, 0 >>
PacketC == << 200, 1, 171 >>
PacketD == << 9, 2, 18, 52, 255 >>
PacketE == << 255, 2, 255, 255, 0, 0, 127, 255, 128, 0, 0, 1, 2, 3, 4, 129 >>
PacketZ == << 0, 0, 0, 0, 0, 0, 0, 0, 0, 0, 0, 0, 0, 0 >>

NotifyPackets == { PacketA, PacketC }

\* Buffers handed to the decoder alone: every length 0..MaxDataLen of every
\* base pattern (the pattern repeats past its end).
MaxDataLen == 16
BasePatterns == { PacketA, PacketB, PacketC, PacketD, PacketE, PacketZ }
Stretch(base, n) == [ i \in 1..n |-> base[((i - 1) % Len(base)) + 1] ]
Lengths == { Stretch(b, n) : b \in BasePatterns, n \in 0..MaxDataLen }

Nybbles == 0..15
Bytes == 0..255
\* Every joystick-X field (bytes 2..3), by its four hex digits
JoyXSweep ==
    { [ PacketB EXCEPT ![3] = 16 * n0 + n1, ![4] = 16 * n2 + n3 ] :
        n0 \in Nybbles, n1 \in Nybbles, n2 \in Nybbles, n3 \in Nybbles }
\* Joystick-Y fields (bytes 4..5): every high byte, low bytes around the
\* calibration limits 13350 = 52*256 + 38 and 50280 = 196*256 + 104
JoyYLowBytes == { 0, 37, 38, 39, 71, 103, 104, 105, 255 }
JoyYSweep ==
    { [ PacketB EXCEPT ![5] = hi, ![6] = lo ] : hi \in Bytes, lo \in JoyYLowBytes }
\* Every value of the buttons byte and of each of the last three bytes, in
\* packets of 14 and of 16 bytes
SweptPackets == { PacketA, PacketE, PacketZ }
SweptPositions(b) == { 2, Len(b) - 2, Len(b) - 1, Len(b) }
ByteSweep ==
    UNION { { [ b EXCEPT ![p] = v ] : p \in SweptPositions(b), v \in Bytes } :
              b \in SweptPackets }

DecoderInputs == Lengths \cup ByteSweep
JoystickInputs == JoyXSweep \cup JoyYSweep \cup { PacketZ }

\* ------------------------------------------------------------- state
VARIABLES
    pc,         \* pc[s]: where session s's connect_to_device coroutine is
    enabled,    \* start_button.isEnabled()
    log,        \* the QTextEdit: the lines appended, in order
    calls,      \* calls[s]: setEnabled and BLE calls issued by session s, in order
    conn,       \* conn[s]: the BleakClient's link: none, open, lost, closed
    sub,        \* sub[s]: the INPUT notification callback is registered
    cancelled,  \* cancelled[s]: the stop request was delivered to the task
    exc,        \* exc[s]: the exception that left the coroutine, or "none"
    started,    \* presses of the start button so far
    delivered,  \* delivered[s]: handle_input calls made for session s's client
    data        \* the argument of the latest handle_input call

vars == << pc, enabled, log, calls, conn, sub, cancelled, exc, started, delivered, data >>

Sessions == 1..MaxSessions

ReadPcs == { "read49", "read51", "read33" }
\* Positions at which the coroutine is suspended in an await.
AwaitPcs == { "scan", "connect", "subscribe", "subscribed", "wait", "woken",
              "unsubscribe", "unsubscribed", "disconnect" } \cup ReadPcs

Init ==
    /\ pc = [ s \in Sessions |-> "idle" ]
    /\ enabled = TRUE
    /\ log = << >>
    /\ calls = [ s \in Sessions |-> << >> ]
    /\ conn = [ s \in Sessions |-> "none" ]
    /\ sub = [ s \in Sessions |-> FALSE ]
    /\ cancelled = [ s \in Sessions |-> FALSE ]
    /\ exc = [ s \in Sessions |-> "none" ]
    /\ started = 0
    /\ delivered = [ s \in Sessions |-> 0 ]
    /\ data = << >>

\* log_message(text) by session s
Logged(s, k) == Append(log, Line(s, k))

\* Fault variant of ExitClient: the block left without __aexit__, as if the
\* client were not managed by `async with` (C8 rejects it).
ExitClientWithoutDisconnect(s, more) == calls' = [ calls EXCEPT ![s] = @ \o more ]

\* Leaving the `async with BleakClient(device)` block, by return or by an
\* exception: __aexit__ awaits client.disconnect().
ExitClient(s, more) == calls' = [ calls EXCEPT ![s] = @ \o more \o << "disconnect" >> ]

\* ----------------------------------------------------------- actions
\* The click on the enabled start button: connect_to_device up to its
\* first await (lines 43-45).
Click(s) ==
    /\ enabled
    /\ s = started + 1
    /\ pc[s] = "idle"
    /\ started' = s
    /\ enabled' = FALSE
    /\ log' = Logged(s, "scanning")
    /\ calls' = [ calls EXCEPT ![s] = << "disable", "scan" >> ]
    /\ pc' = [ pc EXCEPT ![s] = "scan" ]
    /\ UNCHANGED << conn, sub, cancelled, exc, delivered, data >>

\* Fault variant of ScanNotFound: line 48 missing, the button stays
\* disabled (C4 rejects it).
ScanNotFoundKeepsDisabled(s) ==
    /\ log' = Logged(s, "not_found")
    /\ pc' = [ pc EXCEPT ![s] = "done" ]
    /\ UNCHANGED << enabled, calls >>

\* `if not device:` (lines 46-49)
ScanNotFound(s) ==
    /\ log' = Logged(s, "not_found")
    /\ enabled' = TRUE
    /\ calls' = [ calls EXCEPT ![s] = Append(@, "enable") ]
    /\ pc' = [ pc EXCEPT ![s] = "done" ]

\* find_device_by_name returns (lines 45-52).
ScanDone(s, found) ==
    /\ pc[s] = "scan"
    /\ IF ~found
       THEN ScanNotFound(s)
       ELSE /\ log' = Logged(s, "found")
            /\ calls' = [ calls EXCEPT ![s] = Append(@, "connect") ]
            /\ pc' = [ pc EXCEPT ![s] = "connect" ]
            /\ UNCHANGED enabled
    /\ UNCHANGED << conn, sub, cancelled, exc, started, delivered, data >>

\* BleakClient.__aenter__ (connect) ends (lines 52-59): it raises, or it
\* returns with the client connected or not.
ConnectDone(s, outcome) ==
    /\ pc[s] = "connect"
    /\ CASE outcome = "raise" ->
              /\ exc' = [ exc EXCEPT ![s] = "error" ]
              /\ pc' = [ pc EXCEPT ![s] = "done" ]
              /\ UNCHANGED << log, calls, conn >>
         [] outcome = "not_connected" ->
              /\ conn' = [ conn EXCEPT ![s] = "lost" ]
              /\ log' = Logged(s, "connect_failed")
              /\ ExitClient(s, << >>)
              /\ pc' = [ pc EXCEPT ![s] = "disconnect" ]
              /\ UNCHANGED exc
         [] outcome = "ok" ->
              /\ conn' = [ conn EXCEPT ![s] = "open" ]
              /\ log' = Logged(s, "connected")
              /\ calls' = [ calls EXCEPT ![s] = Append(@, "read49") ]
              /\ pc' = [ pc EXCEPT ![s] = "read49" ]
              /\ UNCHANGED exc
    /\ UNCHANGED << enabled, sub, cancelled, started, delivered, data >>

\* Fault variant of ReadRaised: the handler logs and falls through to
\* start_notify instead of returning (C5 rejects it).
ReadRaisedCarriesOn(s) ==
    /\ log' = Logged(s, "read_error")
    /\ calls' = [ calls EXCEPT ![s] = Append(@, "subscribe") ]
    /\ pc' = [ pc EXCEPT ![s] = "subscribe" ]
    /\ UNCHANGED enabled

\* Fault variant of ReadRaised: the first failed read of a session is
\* logged and issued again (C18 rejects it).
ReadRaisedRetriesOnce(s) ==
    /\ log' = Logged(s, "read_error")
    /\ IF Line(s, "read_error") \in { log[i] : i \in 1..Len(log) }
       THEN /\ enabled' = TRUE
            /\ ExitClient(s, << "enable" >>)
            /\ pc' = [ pc EXCEPT ![s] = "disconnect" ]
       ELSE /\ calls' = [ calls EXCEPT ![s] = Append(@, pc[s]) ]
            /\ UNCHANGED << pc, enabled >>

\* `except Exception as e:` (lines 62-65)
ReadRaised(s) ==
    /\ log' = Logged(s, "read_error")
    /\ enabled' = TRUE
    /\ ExitClient(s, << "enable" >>)
    /\ pc' = [ pc EXCEPT ![s] = "disconnect" ]

\* Fault variant of ReadDone: each value logged as soon as it is read
\* (C12 rejects it).
ReadDoneLogsEachRead(s, ok) ==
    /\ pc[s] \in ReadPcs
    /\ ok => conn[s] = "open"
    /\ IF ~ok
       THEN ReadRaised(s)
       ELSE /\ UNCHANGED enabled
            /\ CASE pc[s] = "read49" ->
                      /\ log' = Logged(s, "manufacturer")
                      /\ calls' = [ calls EXCEPT ![s] = Append(@, "read51") ]
                      /\ pc' = [ pc EXCEPT ![s] = "read51" ]
                 [] pc[s] = "read51" ->
                      /\ log' = Logged(s, "software")
                      /\ calls' = [ calls EXCEPT ![s] = Append(@, "read33") ]
                      /\ pc' = [ pc EXCEPT ![s] = "read33" ]
                 [] pc[s] = "read33" ->
                      /\ log' = Logged(s, "battery")
                      /\ calls' = [ calls EXCEPT ![s] = Append(@, "subscribe") ]
                      /\ pc' = [ pc EXCEPT ![s] = "subscribe" ]
    /\ UNCHANGED << conn, sub, cancelled, exc, started, delivered, data >>

\* One read_gatt_char ends (lines 58-71); a failed read or a failed
\* decode() of its bytes is an Exception.
ReadDone(s, ok) ==
    /\ pc[s] \in ReadPcs
    /\ ok => conn[s] = "open"
    /\ IF ~ok
       THEN ReadRaised(s)
       ELSE /\ UNCHANGED enabled
            /\ CASE pc[s] = "read49" ->
                      /\ calls' = [ calls EXCEPT ![s] = Append(@, "read51") ]
                      /\ pc' = [ pc EXCEPT ![s] = "read51" ]
                      /\ UNCHANGED log
                 [] pc[s] = "read51" ->
                      /\ calls' = [ calls EXCEPT ![s] = Append(@, "read33") ]
                      /\ pc' = [ pc EXCEPT ![s] = "read33" ]
                      /\ UNCHANGED log
                 [] pc[s] = "read33" ->
                      /\ log' = log \o << Line(s, "manufacturer"), Line(s, "battery"),
                                          Line(s, "software") >>
                      /\ calls' = [ calls EXCEPT ![s] = Append(@, "subscribe") ]
                      /\ pc' = [ pc EXCEPT ![s] = "subscribe" ]
    /\ UNCHANGED << conn, sub, cancelled, exc, started, delivered, data >>

\* start_notify ends at the BLE layer (line 71): the callback is registered,
\* or the call raises and the exception leaves the coroutine.
SubscribeAck(s, ok) ==
    /\ pc[s] = "subscribe"
    /\ ok => conn[s] = "open"
    /\ IF ok
       THEN /\ sub' = [ sub EXCEPT ![s] = TRUE ]
            /\ pc' = [ pc EXCEPT ![s] = "subscribed" ]
            /\ UNCHANGED << calls, exc >>
       ELSE /\ exc' = [ exc EXCEPT ![s] = "error" ]
            /\ ExitClient(s, << >>)
            /\ pc' = [ pc EXCEPT ![s] = "disconnect" ]
            /\ UNCHANGED sub
    /\ UNCHANGED << enabled, log, conn, cancelled, started, delivered, data >>

\* The coroutine resumes after start_notify (lines 72-76).
SubscribeResume(s) ==
    /\ pc[s] = "subscribed"
    /\ log' = Logged(s, "listening")
    /\ pc' = [ pc EXCEPT ![s] = "wait" ]
    /\ UNCHANGED << enabled, calls, conn, sub, cancelled, exc, started, delivered, data >>

\* asyncio.sleep(1) expires (line 76) ...
WakeUp(s) ==
    /\ pc[s] = "wait"
    /\ pc' = [ pc EXCEPT ![s] = "woken" ]
    /\ UNCHANGED << enabled, log, calls, conn, sub, cancelled, exc, started, delivered, data >>

\* ... and `while True` sleeps again (lines 75-76).
Loop(s) ==
    /\ pc[s] = "woken"
    /\ pc' = [ pc EXCEPT ![s] = "wait" ]
    /\ UNCHANGED << enabled, log, calls, conn, sub, cancelled, exc, started, delivered, data >>

\* Fault variant of CancelInWait: the handler swallows the cancellation
\* without stop_notify, log line or setEnabled (C7 rejects it).
CancelInWaitSkipsCleanup(s) ==
    /\ ExitClient(s, << >>)
    /\ pc' = [ pc EXCEPT ![s] = "disconnect" ]
    /\ UNCHANGED exc

\* `except asyncio.CancelledError:` up to its await (lines 77-78)
CancelInWait(s) ==
    /\ calls' = [ calls EXCEPT ![s] = Append(@, "unsubscribe") ]
    /\ pc' = [ pc EXCEPT ![s] = "unsubscribe" ]
    /\ UNCHANGED exc

\* CancelledError raised at the await the coroutine is suspended in.  Only
\* the idle wait catches it (line 77); it is no Exception, so line 62 does
\* not; inside the client block it passes through __aexit__.
Cancel(s) ==
    /\ pc[s] \in AwaitPcs
    /\ ~cancelled[s]
    /\ cancelled' = [ cancelled EXCEPT ![s] = TRUE ]
    /\ CASE pc[s] \in { "scan", "connect", "disconnect" } ->
              /\ exc' = [ exc EXCEPT ![s] = "cancelled" ]
              /\ pc' = [ pc EXCEPT ![s] = "done" ]
              /\ UNCHANGED calls
         [] pc[s] \in { "wait", "woken" } -> CancelInWait(s)
         [] OTHER ->
              /\ exc' = [ exc EXCEPT ![s] = "cancelled" ]
              /\ ExitClient(s, << >>)
              /\ pc' = [ pc EXCEPT ![s] = "disconnect" ]
    /\ UNCHANGED << enabled, log, conn, sub, started, delivered, data >>

\* Fault variant of UnsubscribeAck: stop_notify returns with the callback
\* still registered (C19 rejects it).
UnsubscribeAckKeepsCallback(s) ==
    /\ pc[s] = "unsubscribe"
    /\ pc' = [ pc EXCEPT ![s] = "unsubscribed" ]
    /\ UNCHANGED << enabled, log, calls, conn, sub, cancelled, exc, started, delivered, data >>

\* stop_notify ends at the BLE layer (line 78).
UnsubscribeAck(s) ==
    /\ pc[s] = "unsubscribe"
    /\ sub' = [ sub EXCEPT ![s] = FALSE ]
    /\ pc' = [ pc EXCEPT ![s] = "unsubscribed" ]
    /\ UNCHANGED << enabled, log, calls, conn, cancelled, exc, started, delivered, data >>

\* The coroutine resumes after stop_notify (lines 79-80) and leaves the
\* client block.
UnsubscribeResume(s) ==
    /\ pc[s] = "unsubscribed"
    /\ log' = Logged(s, "stopped")
    /\ enabled' = TRUE
    /\ ExitClient(s, << "enable" >>)
    /\ pc' = [ pc EXCEPT ![s] = "disconnect" ]
    /\ UNCHANGED << conn, sub, cancelled, exc, started, delivered, data >>

\* client.disconnect() of __aexit__ ends; the coroutine ends with it.
DisconnectDone(s) ==
    /\ pc[s] = "disconnect"
    /\ conn' = [ conn EXCEPT ![s] = "closed" ]
    /\ sub' = [ sub EXCEPT ![s] = FALSE ]
    /\ pc' = [ pc EXCEPT ![s] = "done" ]
    /\ UNCHANGED << enabled, log, calls, cancelled, exc, started, delivered, data >>

\* The device drops the link (out of range, power off).  Nothing in
\* connect_to_device is told: no disconnected_callback is registered.
Drop(s) ==
    /\ conn[s] = "open"
    /\ conn' = [ conn EXCEPT ![s] = "lost" ]
    /\ UNCHANGED << pc, enabled, log, calls, sub, cancelled, exc, started, delivered, data >>

RECURSIVE Sum(_, _)
Sum(f, S) == IF S = {} THEN 0 ELSE LET x == CHOOSE y \in S : TRUE
                                   IN  f[x] + Sum(f, S \ { x })

\* Fault variant of Notify: handle_input without its try/except, so that a
\* packet that cannot be decoded logs the error and takes the callback down
\* (C9 rejects it).
NotifyStopsOnError(s, d) ==
    /\ sub[s]
    /\ conn[s] = "open"
    /\ Sum(delivered, Sessions) < MaxNotify
    /\ delivered' = [ delivered EXCEPT ![s] = @ + 1 ]
    /\ data' = d
    /\ log' = Append(log, HandleInput(s, d))
    /\ sub' = [ sub EXCEPT ![s] = IF DecodeRaises(d) THEN FALSE ELSE @ ]
    /\ UNCHANGED << pc, enabled, calls, conn, cancelled, exc, started >>

\* Fault variant of Deliver: the timestamp kept in a field of the widget and
\* printed one packet late, so that a line depends on the packet before
\* (C11 rejects it).
DeliverLeaksState(s, d) ==
    /\ sub[s]
    /\ conn[s] = "open"
    /\ delivered' = [ delivered EXCEPT ![s] = @ + 1 ]
    /\ data' = d
    /\ log' = Append(log, HandleInput(s, IF Len(data) > 0 /\ Len(d) > 0
                                         THEN << data[1] >> \o Tail(d) ELSE d))
    /\ UNCHANGED << pc, enabled, calls, conn, sub, cancelled, exc, started >>

\* The BLE layer calls handle_input(sender, d) for session s's client
\* (lines 82-117): a plain function, run to its end by the event loop
\* before any other callback.
Deliver(s, d) ==
    /\ sub[s]
    /\ conn[s] = "open"
    /\ delivered' = [ delivered EXCEPT ![s] = @ + 1 ]
    /\ data' = d
    /\ log' = Append(log, HandleInput(s, d))
    /\ UNCHANGED << pc, enabled, calls, conn, sub, cancelled, exc, started >>

\* A notification of INPUT arrives.
Notify(s, d) ==
    /\ Sum(delivered, Sessions) < MaxNotify
    /\ Deliver(s, d)

\* What the coroutine and the BLE layer do by themselves.
Step(s) ==
    \/ \E found \in BOOLEAN : ScanDone(s, found)
    \/ \E outcome \in { "ok", "not_connected", "raise" } : ConnectDone(s, outcome)
    \/ \E ok \in BOOLEAN : ReadDone(s, ok)
    \/ \E ok \in BOOLEAN : SubscribeAck(s, ok)
    \/ SubscribeResume(s)
    \/ WakeUp(s)
    \/ Loop(s)
    \/ UnsubscribeAck(s)
    \/ UnsubscribeResume(s)
    \/ DisconnectDone(s)

\* What the user and the device decide.
Input(s) ==
    \/ Click(s)
    \/ Cancel(s)
    \/ Drop(s)
    \/ \E d \in NotifyPackets : Notify(s, d)

Next == \E s \in Sessions : Step(s) \/ Input(s)

Spec == Init /\ [][Next]_vars

\* Every await of the coroutine ends and the event loop keeps running its
\* ready callbacks; the user and the device owe nothing.
FairSpec == Spec /\ \A s \in Sessions : WF_vars(Step(s))

\* ------------------------------------- a burst of notifications
\* One session that has just started listening (a state Spec reaches, see
\* ListeningState) receives up to MaxBurst notifications drawn from five
\* payloads.
MaxBurst == 3
BurstPackets == { PacketA, PacketB, PacketC, PacketD, PacketE }

ListenInit ==
    /\ pc = [ s \in Sessions |-> IF s = 1 THEN "wait" ELSE "idle" ]
    /\ enabled = FALSE
    /\ log = << Line(1, "scanning"), Line(1, "found"), Line(1, "connected"),
                Line(1, "manufacturer"), Line(1, "battery"), Line(1, "software"),
                Line(1, "listening") >>
    /\ calls = [ s \in Sessions |->
                   IF s = 1 THEN << "disable", "scan", "connect", "read49", "read51",
                                    "read33", "subscribe" >>
                   ELSE << >> ]
    /\ conn = [ s \in Sessions |-> IF s = 1 THEN "open" ELSE "none" ]
    /\ sub = [ s \in Sessions |-> s = 1 ]
    /\ cancelled = [ s \in Sessions |-> FALSE ]
    /\ exc = [ s \in Sessions |-> "none" ]
    /\ started = 1
    /\ delivered = [ s \in Sessions |-> 0 ]
    /\ data = << >>

Burst(d) ==
    /\ delivered[1] < MaxBurst
    /\ Deliver(1, d)

ListenNext ==
    \/ \E d \in BurstPackets : Burst(d)
    \/ WakeUp(1)
    \/ Loop(1)

ListenSpec == ListenInit /\ [][ListenNext]_vars

\* ---------------------------------------------- the decoder on its own
DecoderStart(inputs) ==
    /\ data \in inputs
    /\ pc = [ s \in Sessions |-> "idle" ]
    /\ enabled = TRUE
    /\ log = << >>
    /\ calls = [ s \in Sessions |-> << >> ]
    /\ conn = [ s \in Sessions |-> "none" ]
    /\ sub = [ s \in Sessions |-> FALSE ]
    /\ cancelled = [ s \in Sessions |-> FALSE ]
    /\ exc = [ s \in Sessions |-> "none" ]
    /\ started = 0
    /\ delivered = [ s \in Sessions |-> 0 ]

\* handle_input(sender, data) on the drawn buffer
DecodeStep ==
    /\ log = << >>
    /\ log' = << HandleInput(1, data) >>
    /\ delivered' = [ delivered EXCEPT ![1] = 1 ]
    /\ UNCHANGED << pc, enabled, calls, conn, sub, cancelled, exc, started, data >>

DecoderInit == DecoderStart(DecoderInputs)
DecoderSpec == DecoderInit /\ [][DecodeStep]_vars

\* ... and on the joystick fields
JoystickInit == DecoderStart(JoystickInputs)
JoystickSpec == JoystickInit /\ [][DecodeStep]_vars

\* ------------------------------------------------------------ claims
Active(s) == pc[s] \notin { "idle", "done" }
Count(s, k) == Cardinality({ i \in 1..Len(log) : log[i].sid = s /\ log[i].kind = k })
InputLines(s) == { i \in 1..Len(log) :
                     log[i].sid = s /\ log[i].kind \in { "sample", "parse_error" } }
Called(s, c) == \E i \in 1..Len(calls[s]) : calls[s][i] = c
CalledBefore(s, a, b) ==
    \E i, j \in 1..Len(calls[s]) : i < j /\ calls[s][i] = a /\ calls[s][j] = b
\* The last n calls of session s
LastCalls(s, n) ==
    IF Len(calls[s]) < n THEN << >>
    ELSE SubSeq(calls[s], Len(calls[s]) - n + 1, Len(calls[s]))
\* The kinds of the lines session s appended, in order
KindsOf(s) ==
    LET mine == SelectSeq(log, LAMBDA e : e.sid = s)
    IN  [ i \in 1..Len(mine) |-> mine[i].kind ]

\* C1: while a session is active (its coroutine has not ended: a BLE
\* operation is outstanding or its connection is being held) the start
\* button is disabled, so no two sessions are ever active together.
C1_OneSessionAtATime ==
    /\ \A s \in Sessions : Active(s) => ~enabled
    /\ Cardinality({ s \in Sessions : Active(s) }) <= 1

\* C2: whenever no session is running the start button is enabled (the
\* user can retry).  Stated here for the runs the claim lists first: those
\* in which no stop request was delivered.
C2_IdleMeansEnabled ==
    ( /\ \A s \in Sessions : ~Active(s)
      /\ \A s \in Sessions : ~cancelled[s] ) => enabled

\* The connect attempt of session s failed: connect was issued, no read
\* followed, and the session ended without a stop request.
ConnectFailed(s) ==
    /\ pc[s] = "done"
    /\ ~cancelled[s]
    /\ Called(s, "connect")
    /\ ~Called(s, "read49")

\* C3: a session whose connect attempt failed has appended exactly one
\* "failed to connect" line, issued no read and no subscribe, and has
\* re-enabled the start button.
C3_ConnectFailureRecovers ==
    \A s \in Sessions :
        ConnectFailed(s) =>
            /\ Count(s, "connect_failed") = 1
            /\ ~Called(s, "subscribe")
            /\ Called(s, "enable")

\* The scan of session s returned no device: the coroutine returned
\* without ever issuing connect.
ScanFoundNothing(s) ==
    /\ pc[s] = "done"
    /\ exc[s] = "none"
    /\ ~Called(s, "connect")

\* C4: a session whose scan found no device appended exactly the lines
\* "scanning", "not found", re-enabled the start button and did nothing
\* else: no connect, read, subscribe or disconnect, no connection.
C4_NotFoundOnlyLogsAndEnables ==
    \A s \in Sessions :
        ScanFoundNothing(s) =>
            /\ KindsOf(s) = << "scanning", "not_found" >>
            /\ calls[s] = << "disable", "scan", "enable" >>
            /\ conn[s] = "none"
            /\ ~sub[s]
            /\ delivered[s] = 0

C4_Witness ==
    \E s \in Sessions : ScanFoundNothing(s) /\ Count(s, "not_found") = 1 /\ enabled

\* C5: a session in which a device-info read failed logged the error once,
\* re-enabled start and left the client block (disconnect issued); it never
\* subscribed, no notification reached handle_input and it logged no input
\* line.
C5_ReadFailureNeverSubscribes ==
    \A s \in Sessions :
        Count(s, "read_error") > 0 =>
            /\ Count(s, "read_error") = 1
            /\ LastCalls(s, 2) = << "enable", "disconnect" >>
            /\ pc[s] \in { "disconnect", "done" }
            /\ ~Called(s, "subscribe")
            /\ ~sub[s]
            /\ delivered[s] = 0
            /\ InputLines(s) = {}
            /\ Count(s, "listening") = 0

C5_Witness ==
    \E s \in Sessions :
        /\ Count(s, "read_error") = 1
        /\ Called(s, "read33")
        /\ pc[s] = "done"
        /\ conn[s] = "closed"

\* C6: a link dropped while the session is in its idle wait leads to the
\* session having ended with the start button enabled.
C6_DropEndsSession ==
    \A s \in Sessions :
        (conn[s] = "lost" /\ pc[s] \in { "wait", "woken" })
            ~> (pc[s] = "done" /\ enabled)

\* Session s was listening (it logged "listening") and the stop request
\* reached it there.
StoppedWhileListening(s) == cancelled[s] /\ Count(s, "listening") = 1

\* C7: a stop request delivered in the idle wait makes the session
\* unsubscribe, then log "stopped" once and re-enable start, then
\* disconnect (the unsubscribe before the disconnect); none of these steps
\* can block, and the coroutine ends normally with the callback
\* unregistered and the connection closed.
C7_StopUnwinds ==
    \A s \in Sessions :
        StoppedWhileListening(s) =>
            /\ pc[s] \in { "unsubscribe", "unsubscribed", "disconnect", "done" }
            /\ pc[s] # "done" => ENABLED Step(s)
            /\ pc[s] \in { "unsubscribe", "unsubscribed" } =>
                  /\ LastCalls(s, 2) = << "subscribe", "unsubscribe" >>
                  /\ Count(s, "stopped") = 0
                  /\ ~enabled
            /\ pc[s] \in { "disconnect", "done" } =>
                  /\ LastCalls(s, 4) = << "subscribe", "unsubscribe", "enable", "disconnect" >>
                  /\ Count(s, "stopped") = 1
                  /\ KindsOf(s)[Len(KindsOf(s))] = "stopped"
                  /\ ~sub[s]
            /\ pc[s] = "done" => exc[s] = "none" /\ conn[s] = "closed"

\* C7, progress: under fair scheduling of the coroutine a session stopped
\* while listening does end.
C7_StopTerminates ==
    \A s \in Sessions : StoppedWhileListening(s) ~> (pc[s] = "done")

C7_Witness ==
    \E s \in Sessions :
        StoppedWhileListening(s) /\ pc[s] = "done" /\ Count(s, "stopped") = 1

\* C8: a session that reached the idle wait never ends with its
\* subscription or its connection open: when its coroutine has ended,
\* unsubscribe was issued, disconnect was issued after it, the callback is
\* unregistered and the connection is closed; and as long as it has not
\* issued unsubscribe it is still in the wait.
C8_CleanupBeforeEnd ==
    \A s \in Sessions :
        Count(s, "listening") > 0 =>
            /\ pc[s] = "done" =>
                  /\ CalledBefore(s, "unsubscribe", "disconnect")
                  /\ ~sub[s]
                  /\ conn[s] = "closed"
            /\ ~Called(s, "unsubscribe") => pc[s] \in { "wait", "woken" }
            /\ Called(s, "disconnect") => ~sub[s]

C8_Witness ==
    \E s \in Sessions :
        /\ Count(s, "listening") > 0
        /\ pc[s] = "done"
        /\ delivered[s] > 0

\* C9: a notification whose decoding raises appends exactly one "Error
\* parsing input" line and changes nothing else of the session or the
\* button; and every notification delivered, also after such a one, has its
\* line in the log.
C9_BadPacketStep(s) ==
    (delivered'[s] = delivered[s] + 1 /\ DecodeRaises(data')) =>
        /\ log' = Append(log, Line(s, "parse_error"))
        /\ UNCHANGED << pc, enabled, calls, conn, sub, cancelled, exc, started >>

C9_MalformedPacketKeepsListening ==
    /\ [][\A s \in Sessions : C9_BadPacketStep(s)]_vars
    /\ [](\A s \in Sessions : Cardinality(InputLines(s)) = delivered[s])

\* a sample line logged after a parse error of the same listening session
C9_Witness ==
    \E s \in Sessions :
        /\ pc[s] \in { "wait", "woken" }
        /\ sub[s]
        /\ ~enabled
        /\ \E i, j \in InputLines(s) :
              i < j /\ log[i].kind = "parse_error" /\ log[j].kind = "sample"

\* C10: a buffer shorter than 14 bytes is never decoded into a sample line:
\* handle_input appends the error line for it.
C10_ShortBufferIsMalformed ==
    (log # << >> /\ Len(data) < 14) => log[1].kind = "parse_error"


\* The state ListenSpec starts in; Spec reaches it.
ListeningState == ListenInit
ListeningStateNeverReached == ~ListeningState

\* C11: every notification delivered appends exactly one line, at the end
\* of the log (so N notifications give N lines in arrival order), in the
\* same step (it is processed before the next is handled), and the line is
\* the decoding of that notification's bytes alone.
C11_Step(s) ==
    delivered'[s] # delivered[s] =>
        /\ delivered'[s] = delivered[s] + 1
        /\ log' = Append(log, HandleInput(s, data'))

C11_OneLinePerNotificationInOrder ==
    /\ [][\A s \in Sessions : C11_Step(s)]_vars
    /\ [](\A s \in Sessions :
            /\ Cardinality(InputLines(s)) = delivered[s]
            /\ delivered[s] > 0 => log[Len(log)] = HandleInput(s, data))

\* three notifications with distinct payloads, their three lines last in the
\* log, in arrival order
C11_Witness ==
    /\ delivered[1] = 3
    /\ Len(log) = 10
    /\ log[8] = HandleInput(1, PacketA)
    /\ log[9] = HandleInput(1, PacketC)
    /\ log[10] = HandleInput(1, PacketE)
    /\ data = PacketE


ReadCalls == { "read49", "read51", "read33" }
ReadLineKindSet == { "manufacturer", "battery", "software", "read_error" }
\* The read-related lines of session s, in log order
ReadLineKinds(s) == SelectSeq(KindsOf(s), LAMBDA k : k \in ReadLineKindSet)
\* The reads session s issued
ReadsIssued(s) == Cardinality({ i \in 1..Len(calls[s]) : calls[s][i] \in ReadCalls })
\* A read of session s raised: the handler's setEnabled follows a read call.
ReadFailedIn(s) ==
    \E i \in 1..(Len(calls[s]) - 1) :
        calls[s][i] \in ReadCalls /\ calls[s][i + 1] = "enable"
AllReadsDone(s) == Called(s, "subscribe")

\* C12 as claimed: once the reads of a session are over (one failed, or all
\* three succeeded) every read issued has contributed exactly one line, so
\* k successes and a failure give k+1 read-related lines.
C12_OneLinePerRead ==
    \A s \in Sessions :
        (ReadFailedIn(s) \/ AllReadsDone(s)) => Len(ReadLineKinds(s)) = ReadsIssued(s)

\* A step appends read-related lines of session s only when one of its
\* reads ends: the three values together when the third read succeeds, the
\* error when a read fails.
C12_Step(s) ==
    (/\ Len(log') > Len(log)
     /\ log'[Len(log')].sid = s
     /\ log'[Len(log')].kind \in ReadLineKindSet) =>
        /\ pc[s] \in ReadPcs
        /\ \/ pc[s] = "read33" /\ pc'[s] = "subscribe" /\ Len(log') = Len(log) + 3
           \/ pc'[s] = "disconnect" /\ log' = Logged(s, "read_error")

\* C12 amended: reads are logged per session, not per read.  Three
\* successful reads give three lines, appended together after the third
\* read in the order manufacturer, battery, software; a failed read gives
\* one line, the error, however many reads succeeded before it; a read that
\* is outstanding or was cancelled gives none.
C12_ReadLinesPerSession ==
    /\ [][\A s \in Sessions : C12_Step(s)]_vars
    /\ [](\A s \in Sessions :
            ReadLineKinds(s) =
                IF AllReadsDone(s) THEN << "manufacturer", "battery", "software" >>
                ELSE IF ReadFailedIn(s) THEN << "read_error" >>
                ELSE << >>)

\* two reads succeeded, the third failed: one read-related line
C12_Witness ==
    \E s \in Sessions :
        /\ ReadFailedIn(s)
        /\ ReadsIssued(s) = 3
        /\ ReadLineKinds(s) = << "read_error" >>
        /\ pc[s] = "done"


\* handle_input has run on `data` and logged a decoded sample.
Decoded == log # << >> /\ log[Len(log)].kind = "sample"
Sample == log[Len(log)].val
RangeX == JOY_X_MAX - JOY_X_MIN
RangeY == JOY_Y_MAX - JOY_Y_MIN

\* The raw joystick X as the nybble formula gives it.
NybbleFormula(d) ==
    LET n0 == d[3] \div 16
        n1 == d[3] % 16
        n2 == d[4] \div 16
        n3 == d[4] % 16
    IN  4096 * n3 + 256 * n0 + 16 * n2 + n1

\* C13 as stated: the raw joystick X is 4096*n3 + 256*n0 + 16*n2 + n1 and
\* bytes 0x12 0x34 give 0x4123 = 16675.
C13_AsStated ==
    Decoded =>
        /\ Decode(data).joyXraw = NybbleFormula(data)
        /\ (data[3] = 18 /\ data[4] = 52) => Decode(data).joyXraw = 16675

\* C13: with (n0, n1, n2, n3) the hex digits of bytes 2..3 in transmission
\* order, the raw joystick X is 4096*n3 + 256*n0 + 16*n2 + n1, and the
\* printed joyX is its normalisation; bytes 0x12 0x34 give 0x4132 = 16690.
C13_JoyXNybbleOrder ==
    Decoded =>
        /\ Decode(data).joyXraw = NybbleFormula(data)
        /\ Sample.joyX = 2 * (NybbleFormula(data) - JOY_X_MIN) - RangeX
        /\ (data[3] = 18 /\ data[4] = 52) => Decode(data).joyXraw = 16690

C13_Witness ==
    /\ Decoded
    /\ data[3] = 18 /\ data[4] = 52
    /\ Decode(data).joyXraw = 16690
    /\ Sample.joyX = 2 * (16690 - JOY_X_MIN) - RangeX

\* C14: the midpoints of the calibration ranges, and only they, decode to
\* the centre: joyX = 0 exactly when the raw X is 28800, joyY = 0 exactly
\* when the raw Y is 31815.
C14_MidpointIsCentre ==
    /\ 2 * (28800 - JOY_X_MIN) = RangeX
    /\ 2 * (31815 - JOY_Y_MIN) = RangeY
    /\ Decoded =>
          /\ Sample.joyX = 0 <=> Decode(data).joyXraw = 28800
          /\ Sample.joyY = 0 <=> Decode(data).joyYraw = 31815

C14_Witness ==
    /\ Decoded
    /\ Decode(data).joyXraw = 28800
    /\ Decode(data).joyYraw = 31815
    /\ Sample.joyX = 0
    /\ Sample.joyY = 0

\* C15: no clamping: joyX lies in [-1, 1] exactly when the raw X lies in
\* [JOY_X_MIN, JOY_X_MAX], joyY exactly when the raw Y lies in
\* [JOY_Y_MIN, JOY_Y_MAX]; the all-zero packet gives joyX < -1 and joyY > 1.
C15_NoClamping ==
    Decoded =>
        /\ (-RangeX <= Sample.joyX /\ Sample.joyX <= RangeX)
              <=> (JOY_X_MIN <= Decode(data).joyXraw /\ Decode(data).joyXraw <= JOY_X_MAX)
        /\ (-RangeY <= Sample.joyY /\ Sample.joyY <= RangeY)
              <=> (JOY_Y_MIN <= Decode(data).joyYraw /\ Decode(data).joyYraw <= JOY_Y_MAX)
        /\ data = PacketZ => (Sample.joyX < -RangeX /\ Sample.joyY > RangeY)

C15_Witness ==
    /\ Decoded
    /\ data = PacketZ
    /\ Sample.joyX < -RangeX
    /\ Sample.joyY > RangeY


\* A byte as a signed 8-bit two's-complement integer.
Signed8(b) == IF b < 128 THEN b ELSE b - 256
\* Byte i (0 = lowest) of a signed integer of any width.
ByteOf(v, i) == (v \div Pow256(i)) % 256

\* C16: btn1 (top button) is true exactly when bit 0 of the buttons byte
\* (byte 1) is set and btn2 (joystick button) exactly when bit 1 is set,
\* whatever bits 2..7 and the other bytes are.
C16_ButtonBits ==
    Decoded =>
        /\ Sample.btn1 = (data[2] % 2 = 1)
        /\ Sample.btn2 = ((data[2] \div 2) % 2 = 1)
        /\ data[2] = 3 => (Sample.btn1 /\ Sample.btn2)
        /\ data[2] = 0 => (~Sample.btn1 /\ ~Sample.btn2)

C16_Witness ==
    /\ Decoded
    /\ data[2] = 254
    /\ ~Sample.btn1
    /\ Sample.btn2

\* C17: accX is the last byte, accY the second-to-last and accZ the
\* third-to-last, each read as a signed 8-bit integer (b below 128,
\* b - 256 from 128 on), so 0xFF gives -1.
C17_AccelSignedBytes ==
    Decoded =>
        /\ Sample.accX = Signed8(data[Len(data)])
        /\ Sample.accY = Signed8(data[Len(data) - 1])
        /\ Sample.accZ = Signed8(data[Len(data) - 2])
        /\ data[Len(data)] = 255 => Sample.accX = -1

C17_Witness ==
    /\ Decoded
    /\ data[Len(data)] = 255
    /\ Sample.accX = -1
    /\ data[Len(data) - 1] = 127
    /\ Sample.accY = 127

\* C20: in a 14-byte packet accelX is byte 13 and accelY byte 12, the low
\* and high bytes of gyroW, and accelZ is byte 11, the low byte of gyroZ.
C20_AccelAliasesGyro ==
    (Decoded /\ Len(data) = 14) =>
        /\ Decode(data).accelX = Signed8(data[14])
        /\ Decode(data).accelY = Signed8(data[13])
        /\ Decode(data).accelZ = Signed8(data[12])
        /\ Decode(data).accelX = Signed8(ByteOf(Decode(data).gyroW, 0))
        /\ Decode(data).accelY = Signed8(ByteOf(Decode(data).gyroW, 1))
        /\ Decode(data).accelZ = Signed8(ByteOf(Decode(data).gyroZ, 0))
        /\ Sample.accX = Decode(data).accelX
        /\ Sample.accZ = Decode(data).accelZ

C20_Witness ==
    /\ Decoded
    /\ Len(data) = 14
    /\ Decode(data).gyroW = 127 * 256 + 200
    /\ Sample.accX = 200 - 256
    /\ Sample.accY = 127


\* The BLE operations of a session's start-up, in the order of the code.
BleOrder == << "scan", "connect", "read49", "read51", "read33", "subscribe" >>
BleOpSet == { BleOrder[i] : i \in 1..Len(BleOrder) }
BleOps(s) == SelectSeq(calls[s], LAMBDA c : c \in BleOpSet)
IsPrefix(a, b) == Len(a) <= Len(b) /\ a = SubSeq(b, 1, Len(a))

\* A step that issues a BLE operation of session s issues exactly one, ends
\* the await of the one issued before it, and leaves the coroutine awaiting
\* the new one; none is issued once a read of the session has failed.
C18_Step(s) ==
    BleOps(s)' # BleOps(s) =>
        /\ Len(BleOps(s)') = Len(BleOps(s)) + 1
        /\ IF BleOps(s) = << >> THEN pc[s] = "idle"
                                ELSE pc[s] = BleOps(s)[Len(BleOps(s))]
        /\ pc'[s] = BleOps(s)'[Len(BleOps(s)')]
        /\ Count(s, "read_error")' = 0

\* C18: the BLE operations a session has issued are a prefix of scan,
\* connect, read 49, read 51, read 33, subscribe: each at most once, in
\* that order, one per press of start; the one outstanding is the last one
\* issued; after a failed read none follows; subscribe follows three
\* successful reads.
C18_SequentialBleOperations ==
    /\ [][\A s \in Sessions : C18_Step(s)]_vars
    /\ [](\A s \in Sessions :
            /\ IsPrefix(BleOps(s), BleOrder)
            /\ calls[s] # << >> => s <= started
            /\ pc[s] \in BleOpSet => pc[s] = BleOps(s)[Len(BleOps(s))]
            /\ Count(s, "read_error") > 0 =>
                  /\ pc[s] \in { "disconnect", "done" }
                  /\ ~Called(s, "subscribe")
                  /\ ReadFailedIn(s)
            /\ Called(s, "subscribe") =>
                  /\ ReadsIssued(s) = 3
                  /\ ReadLineKinds(s) = << "manufacturer", "battery", "software" >>)

C18_Witness ==
    \E s \in Sessions :
        /\ BleOps(s) = BleOrder
        /\ pc[s] = "subscribe"
        /\ ReadLineKinds(s) = << "manufacturer", "battery", "software" >>


\* Some line of session s of kind k stands before position i of the log.
LineBefore(s, k, i) == \E j \in 1..(i - 1) : log[j] = Line(s, k)
\* No line of session s of kind k stands before position i of the log.
NoLineUpTo(s, k, i) == \A j \in 1..i : log[j] # Line(s, k)

\* C19 as stated: every input line of a session lies after the session's
\* "Listening to input data" line and before its "Stopped listening" line.
C19_AsStated ==
    \A s \in Sessions : \A i \in InputLines(s) :
        /\ LineBefore(s, "listening", i)
        /\ NoLineUpTo(s, "stopped", i)

\* The callback of session s runs only while it is registered: after
\* start_notify was called and before "Stopped listening" is logged; the
\* coroutine does not move in that step.
C19_Step(s) ==
    delivered'[s] # delivered[s] =>
        /\ sub[s]
        /\ Called(s, "subscribe")
        /\ Count(s, "stopped") = 0
        /\ pc'[s] = pc[s]

\* C19: every input line of a session lies after the lines of the three
\* reads (start_notify has been called) and before the session's "Stopped
\* listening" line; it lies after the "Listening to input data" line only
\* if the coroutine resumed from start_notify before the notification came.
C19_InputLinesWhileSubscribed ==
    /\ [][\A s \in Sessions : C19_Step(s)]_vars
    /\ [](\A s \in Sessions : \A i \in InputLines(s) :
            /\ LineBefore(s, "software", i)
            /\ NoLineUpTo(s, "stopped", i))

C19_Witness ==
    \E s \in Sessions : \E i \in InputLines(s) :
        /\ LineBefore(s, "software", i)
        /\ ~LineBefore(s, "listening", i)
        /\ Count(s, "listening") = 1
        /\ Count(s, "stopped") = 1
        /\ \E k \in InputLines(s) : LineBefore(s, "listening", k)

====
